---- MODULE Spec2Model ----
(***************************************************************************)
(* Model of the vector-store endpoint of directus-extension-vector-store   *)
(* (src/src/rds-vs-endpoint/vs-store.ts, the connectionPromise revision,   *)
(* lines 188-439, and src/src/rds-vs-endpoint/embedding-processor.ts).     *)
(*                                                                         *)
(* The Redis server holds the ledger list 'rds:processed_files', the       *)
(* vector records and the search index.  Each HTTP request is served by an *)
(* async handler (embed, delete, get); a handler yields at every await, so *)
(* handlers of different requests interleave between store commands.  One  *)
(* action of the model is one store command (or one purely local stretch   *)
(* of a handler) together with the synchronous code that follows it up to  *)
(* the next await.                                                         *)
(***************************************************************************)
EXTENDS Integers, Sequences, FiniteSets, TLC

\* ------------------------------------------------------------------ bounds
NumHandlers == 2        \* requests that can be in flight at once
MaxIngests == 3         \* run prefixes (nanoid draws) of a serialized run
MaxRacing == 2          \* run prefixes (nanoid draws) of a run with overlapping requests
MaxChunks == 2          \* chunks one split can produce
MaxChunkInput == 3      \* largest chunkSize / chunkOverlap a request carries
MaxRetries == 23        \* retry counts a socket outage reaches
MaxLedger == 4          \* run prefixes (nanoid draws) of a run of ingests and deletes

Handlers == 1..NumHandlers

\* ----------------------------------------------------------------- inputs
Urls == {"http://a"}                  \* req.body.filePath values that are URLs
Uploads == {"uploads/b"}              \* req.file.path values written by multer
Paths == Urls \cup Uploads
Undefined == "undefined"              \* an absent req.body.filePath
BodyPaths == Paths \cup {"not-a-url", Undefined}
MimeTypes == {"text/plain", "application/octet-stream"}
Extensions == {"txt", "bin"}

\* ------------------------------------------------------------------ state
VARIABLES
    ledger,       \* the Redis list rds:processed_files, head first
    vectors,      \* keys of the vector records present in Redis
    indexExists,  \* the search index schema exists
    isOpen,       \* redisClient.isOpen
    isConnecting, \* this.isConnecting of the flag-based connection manager
    connectionPromise, \* the handler whose call created this.connectionPromise; 0 = null
    connects,     \* per creating handler: the handlers awaiting its connect() promise
    retries,      \* the retry count the socket passes to reconnectStrategy next
    delay,        \* the delay reconnectStrategy returned last (0 before any)
    lastDelay,    \* the delay it returned the time before
    reqBody,      \* req.body.chunkSize and req.body.chunkOverlap of an embed request
    fileConfig,   \* fileConfig.chunk built by embed
    chunk,        \* the chunk processAndStoreEmbeddings hands to the splitter
    nextPrefix,   \* number of nanoid() values drawn so far
    now,          \* clock read by new Date()
    pc,           \* per handler: where it is suspended
    req,          \* per handler: the request it serves
    files,        \* per handler: the list read by lRange
    idx,          \* per handler: loop index i of delete (1-based; 0 = loop over)
    found,        \* per handler: delete's found flag
    docs,         \* per handler: number of documents the split returned
    chunkKeys,    \* per handler: chunk keys built by storeEmbeddings
    metadataIds,  \* per handler: metadata.id of each document, in document order
    threw,        \* per handler: a store command of this handler rejected
    cmds,         \* per handler: index schema commands issued for it
    res,          \* per handler: HTTP status sent ("none" before)
    unlinked      \* per handler: fs.unlink was issued for req.file.path

connVars == <<isOpen, isConnecting, connectionPromise, connects>>
socketVars == <<retries, delay, lastDelay>>
clientVars == <<connVars, socketVars>>
configVars == <<reqBody, fileConfig, chunk>>
storeVars == <<ledger, vectors, indexExists, clientVars, configVars, nextPrefix, now>>
localVars == <<files, idx, found, docs, chunkKeys, metadataIds, threw, cmds, unlinked>>
vars == <<ledger, vectors, indexExists, isOpen, isConnecting, connectionPromise, connects,
          retries, delay, lastDelay, reqBody, fileConfig, chunk, nextPrefix, now,
          pc, req, files, idx, found, docs, chunkKeys, metadataIds, threw, cmds, res, unlinked>>

\* ------------------------------------------------------- ledger entries
\* A list element is a string.  JSON.stringify(metadata) is a string that
\* JSON.parse turns back into the metadata object; '__DELETED__' is a string
\* on which JSON.parse throws.  fileName is carried in the metadata and read
\* by no handler, so it is left out of the record.
NoMeta == [filePath |-> "", processedAt |-> 0, chunkKeys |-> <<>>]

JSONStringify(meta) == [json |-> TRUE, meta |-> meta]

DELETED == [json |-> FALSE, meta |-> NoMeta]

\* JSON.parse: ok = FALSE when it throws.
JSONParse(str) ==
    IF str.json THEN [ok |-> TRUE, value |-> str.meta]
                ELSE [ok |-> FALSE, value |-> NoMeta]

NoReq == [op |-> "none", filePath |-> "", hasFile |-> FALSE, type |-> ""]

Range(s) == {s[k] : k \in 1..Len(s)}

\* ---------------------------------------------------------- Redis lists
\* Mutant of LPush: the value is appended at the tail (RPUSH).
RPush(list, value) == list \o <<value>>

\* Mutant of LPush: the list is replaced by the one value (a SET of the
\* whole list written from a stale read).
LPushOverwrite(list, value) == <<value>>

\* LPUSH key value: the value becomes the head.
LPush(list, value) == <<value>> \o list

\* Mutant of LSet: the placeholder always goes to the head of the list.
LSetHead(list, i, value) == [list EXCEPT ![1] = value]

\* Mutant of LSet: the index is off by one.
LSetOffByOne(list, i, value) ==
    IF i + 1 <= Len(list) THEN [list EXCEPT ![i + 1] = value] ELSE list

\* LSET key index value (index is 1-based here, i + 1 of the code).
LSet(list, i, value) == [list EXCEPT ![i] = value]

\* LREM key 1 value: removes the first occurrence counted from the head.
FirstIndexOf(list, value) ==
    IF \E k \in 1..Len(list) : list[k] = value
    THEN CHOOSE k \in 1..Len(list) :
            list[k] = value /\ \A j \in 1..(k - 1) : list[j] # value
    ELSE 0

RemoveAt(list, k) ==
    [j \in 1..(Len(list) - 1) |-> IF j < k THEN list[j] ELSE list[j + 1]]

LRem(list, value) ==
    IF FirstIndexOf(list, value) = 0 THEN list
    ELSE RemoveAt(list, FirstIndexOf(list, value))

\* Values of a request field or of a number-typed property: undefined, a
\* string that is no number, or a number.
JSUndefined == [kind |-> "undefined", n |-> 0]
JSText == [kind |-> "text", n |-> 0]
JSNumber(n) == [kind |-> "number", n |-> n]

\* An absent or not yet built chunk configuration.
NoChunk == [overlap |-> JSUndefined, size |-> JSUndefined]

\* A request body without chunkSize and chunkOverlap.
NoBody == [chunkSize |-> JSUndefined, chunkOverlap |-> JSUndefined]

\* The state after construction, the pure inputs aside.
InitHandlers ==
    /\ ledger = <<>>
    /\ vectors = {}
    /\ indexExists = FALSE
    /\ isOpen = FALSE
    /\ isConnecting = FALSE
    /\ connectionPromise = 0
    /\ connects = [o \in Handlers |-> {}]
    /\ nextPrefix = 0
    /\ now = 0
    /\ pc = [p \in Handlers |-> "idle"]
    /\ req = [p \in Handlers |-> NoReq]
    /\ files = [p \in Handlers |-> <<>>]
    /\ idx = [p \in Handlers |-> 0]
    /\ found = [p \in Handlers |-> FALSE]
    /\ docs = [p \in Handlers |-> 0]
    /\ chunkKeys = [p \in Handlers |-> <<>>]
    /\ metadataIds = [p \in Handlers |-> <<>>]
    /\ threw = [p \in Handlers |-> FALSE]
    /\ cmds = [p \in Handlers |-> {}]
    /\ res = [p \in Handlers |-> "none"]
    /\ unlinked = [p \in Handlers |-> FALSE]

Init ==
    /\ InitHandlers
    /\ retries = 0
    /\ delay = 0
    /\ lastDelay = 0
    /\ reqBody = NoBody
    /\ fileConfig = NoChunk
    /\ chunk = NoChunk


\* ------------------------------------------------------ handler plumbing
\* Mutant of Respond: fs.unlink sits at the end of the try block, so it is
\* issued on the 200 path only.
RespondUnlinkOnSuccess(p, status) ==
    /\ pc' = [pc EXCEPT ![p] = "done"]
    /\ res' = [res EXCEPT ![p] = status]
    /\ unlinked' = [unlinked EXCEPT ![p] =
                        (req[p].op = "embed" /\ req[p].hasFile /\ status = "200")]

\* A handler sends its response and ends.  embed's finally block issues
\* fs.unlink for an uploaded file on every exit.
Respond(p, status) ==
    /\ pc' = [pc EXCEPT ![p] = "done"]
    /\ res' = [res EXCEPT ![p] = status]
    /\ unlinked' = [unlinked EXCEPT ![p] = (req[p].op = "embed" /\ req[p].hasFile)]

\* The response has been delivered; the handler's locals are gone.
Return(p) ==
    /\ pc[p] = "done"
    /\ pc' = [pc EXCEPT ![p] = "idle"]
    /\ req' = [req EXCEPT ![p] = NoReq]
    /\ files' = [files EXCEPT ![p] = <<>>]
    /\ idx' = [idx EXCEPT ![p] = 0]
    /\ found' = [found EXCEPT ![p] = FALSE]
    /\ docs' = [docs EXCEPT ![p] = 0]
    /\ chunkKeys' = [chunkKeys EXCEPT ![p] = <<>>]
    /\ metadataIds' = [metadataIds EXCEPT ![p] = <<>>]
    /\ threw' = [threw EXCEPT ![p] = FALSE]
    /\ cmds' = [cmds EXCEPT ![p] = {}]
    /\ res' = [res EXCEPT ![p] = "none"]
    /\ unlinked' = [unlinked EXCEPT ![p] = FALSE]
    /\ UNCHANGED storeVars

\* No request is in flight.
Quiet == \A q \in Handlers : pc[q] = "idle"

\* Embeds that will still draw a run prefix; caps the nanoid supply.
PendingDraws ==
    Cardinality({q \in Handlers :
        req[q].op = "embed" /\ pc[q] \in {"conn", "connecting", "e_proc", "e_store"}})

CanIngest(cap) == nextPrefix + PendingDraws < cap

\* ------------------------------------------------------------ connection
\* ensureConnection: returns at once when the client is open, otherwise
\* awaits connect().
AfterConnection(op) ==
    CASE op = "embed" -> "e_proc"
      [] op = "delete" -> "d_range"
      [] OTHER -> "g_range"

\* Mutant of EnsureConnection: the in-flight marker is not consulted, every
\* caller that finds the client closed starts a connect() of its own.
EnsureConnectionNoMarker(p) ==
    /\ connectionPromise' = p
    /\ connects' = [connects EXCEPT ![p] = {p}]

\* ensureConnection on a closed client: the first caller creates
\* connectionPromise (its async body calls connect()), a caller that finds
\* the marker set is handed the same promise.
EnsureConnection(p) ==
    IF connectionPromise = 0
    THEN /\ connectionPromise' = p
         /\ connects' = [connects EXCEPT ![p] = {p}]
    ELSE /\ connectionPromise' = connectionPromise
         /\ connects' = [connects EXCEPT ![connectionPromise] = @ \cup {p}]

\* Mutant of WithRedisConnection: the operation is run without awaiting
\* ensureConnection.
WithRedisConnectionNoAwait(p) ==
    /\ pc[p] = "conn"
    /\ pc' = [pc EXCEPT ![p] = AfterConnection(req[p].op)]
    /\ UNCHANGED <<ledger, vectors, indexExists, clientVars, configVars,
                   nextPrefix, now, req, res>>
    /\ UNCHANGED localVars

\* withRedisConnection up to its await: ensureConnection returns at once
\* when the client is open and the operation starts; otherwise the handler
\* awaits the connection promise.
WithRedisConnection(p) ==
    /\ pc[p] = "conn"
    /\ IF isOpen
       THEN /\ pc' = [pc EXCEPT ![p] = AfterConnection(req[p].op)]
            /\ UNCHANGED <<connectionPromise, connects>>
       ELSE /\ pc' = [pc EXCEPT ![p] = "connecting"]
            /\ EnsureConnection(p)
    /\ UNCHANGED <<ledger, vectors, indexExists, isOpen, isConnecting, socketVars, configVars,
                   nextPrefix, now, req, res>>
    /\ UNCHANGED localVars

\* connect() of the promise created by o resolves: the finally block clears
\* the marker, and every handler awaiting the promise starts its operation.
Connected(o) ==
    /\ connects[o] # {}
    /\ isOpen' = TRUE
    /\ connectionPromise' = 0
    /\ connects' = [connects EXCEPT ![o] = {}]
    /\ pc' = [q \in Handlers |->
                IF q \in connects[o] THEN AfterConnection(req[q].op) ELSE pc[q]]
    /\ UNCHANGED <<ledger, vectors, indexExists, isConnecting, socketVars, configVars,
                   nextPrefix, now, req, res>>
    /\ UNCHANGED localVars

\* Mutant of ConnectFail: the finally block is missing, the marker stays
\* set after the failure.
ConnectFailKeepMarker(o) ==
    /\ connects[o] # {}
    /\ connectionPromise' = connectionPromise
    /\ connects' = [connects EXCEPT ![o] = {}]
    /\ pc' = [q \in Handlers |-> IF q \in connects[o] THEN "done" ELSE pc[q]]
    /\ res' = [q \in Handlers |-> IF q \in connects[o] THEN "500" ELSE res[q]]
    /\ threw' = [q \in Handlers |-> q \in connects[o] \/ threw[q]]
    /\ unlinked' = [q \in Handlers |->
                      IF q \in connects[o]
                      THEN req[q].op = "embed" /\ req[q].hasFile ELSE unlinked[q]]
    /\ UNCHANGED <<ledger, vectors, indexExists, isOpen, isConnecting, socketVars, configVars,
                   nextPrefix, now, req, files, idx, found, docs, chunkKeys, metadataIds, cmds>>

\* connect() of the promise created by o rejects: the finally block clears
\* the marker, the promise rejects, withRedisConnection rethrows in every
\* handler awaiting it and each answers 500 without starting its operation.
ConnectFail(o) ==
    /\ connects[o] # {}
    /\ connectionPromise' = 0
    /\ connects' = [connects EXCEPT ![o] = {}]
    /\ pc' = [q \in Handlers |-> IF q \in connects[o] THEN "done" ELSE pc[q]]
    /\ res' = [q \in Handlers |-> IF q \in connects[o] THEN "500" ELSE res[q]]
    /\ threw' = [q \in Handlers |-> q \in connects[o] \/ threw[q]]
    /\ unlinked' = [q \in Handlers |->
                      IF q \in connects[o]
                      THEN req[q].op = "embed" /\ req[q].hasFile ELSE unlinked[q]]
    /\ UNCHANGED <<ledger, vectors, indexExists, isOpen, isConnecting, socketVars, configVars,
                   nextPrefix, now, req, files, idx, found, docs, chunkKeys, metadataIds, cmds>>

\* ------------------------------------- connection, isConnecting revision
\* ensureConnection of the flag-based revision, from its entry to its first
\* await: it returns at once when the client is open; a caller that finds
\* the flag clear sets it and awaits its own connect(); a caller that finds
\* the flag set sleeps in the polling loop.
FlagEnsureConnection(p) ==
    /\ pc[p] = "conn"
    /\ IF isOpen
       THEN /\ pc' = [pc EXCEPT ![p] = AfterConnection(req[p].op)]
            /\ UNCHANGED <<isConnecting, connects>>
       ELSE IF ~isConnecting
            THEN /\ isConnecting' = TRUE
                 /\ connects' = [connects EXCEPT ![p] = {p}]
                 /\ pc' = [pc EXCEPT ![p] = "f_connect"]
            ELSE /\ pc' = [pc EXCEPT ![p] = "f_wait"]
                 /\ UNCHANGED <<isConnecting, connects>>
    /\ UNCHANGED <<ledger, vectors, indexExists, isOpen, connectionPromise, socketVars,
                   configVars, nextPrefix, now, req, res>>
    /\ UNCHANGED localVars

\* The 50 ms timer of the polling loop fires with the flag clear: the loop
\* ends; when the client is still not open ensureConnection is called again
\* and, the flag being clear, sets it and awaits its own connect().
FlagWake(p) ==
    /\ pc[p] = "f_wait"
    /\ ~isConnecting
    /\ IF isOpen
       THEN /\ pc' = [pc EXCEPT ![p] = AfterConnection(req[p].op)]
            /\ UNCHANGED <<isConnecting, connects>>
       ELSE /\ isConnecting' = TRUE
            /\ connects' = [connects EXCEPT ![p] = {p}]
            /\ pc' = [pc EXCEPT ![p] = "f_connect"]
    /\ UNCHANGED <<ledger, vectors, indexExists, isOpen, connectionPromise, socketVars,
                   configVars, nextPrefix, now, req, res>>
    /\ UNCHANGED localVars

\* connect() of handler p resolves: the finally block clears the flag and
\* the operation starts.
FlagConnected(p) ==
    /\ pc[p] = "f_connect"
    /\ isOpen' = TRUE
    /\ isConnecting' = FALSE
    /\ connects' = [connects EXCEPT ![p] = {}]
    /\ pc' = [pc EXCEPT ![p] = AfterConnection(req[p].op)]
    /\ UNCHANGED <<ledger, vectors, indexExists, connectionPromise, socketVars,
                   configVars, nextPrefix, now, req, res>>
    /\ UNCHANGED localVars

\* connect() of handler p rejects: the finally block clears the flag,
\* withRedisConnection rethrows and the handler answers 500.
FlagConnectFail(p) ==
    /\ pc[p] = "f_connect"
    /\ isConnecting' = FALSE
    /\ connects' = [connects EXCEPT ![p] = {}]
    /\ threw' = [threw EXCEPT ![p] = TRUE]
    /\ Respond(p, "500")
    /\ UNCHANGED <<ledger, vectors, indexExists, isOpen, connectionPromise, socketVars,
                   configVars, nextPrefix, now, req, files, idx, found, docs,
                   chunkKeys, metadataIds, cmds>>

\* redisClient.on('error'): the client emits an error event while a
\* connect() is in flight (a failed attempt that the reconnect strategy is
\* about to repeat); the handler clears the flag.
ErrorEvent ==
    /\ isConnecting
    /\ \E o \in Handlers : connects[o] # {}
    /\ isConnecting' = FALSE
    /\ UNCHANGED <<ledger, vectors, indexExists, isOpen, connectionPromise, connects,
                   socketVars, configVars, nextPrefix, now, pc, req, res>>
    /\ UNCHANGED localVars

\* ----------------------------------------------------------------- embed
GetMimeTypeFromExtension(ext) ==
    CASE ext = "csv" -> "text/csv"
      [] ext = "md" -> "text/markdown"
      [] ext = "txt" -> "text/plain"
      [] OTHER -> "application/octet-stream"

FileType(mime, ext) ==
    IF mime = "application/octet-stream" THEN GetMimeTypeFromExtension(ext) ELSE mime

SupportedTypes == {"application/pdf", "text/csv", "text/markdown", "text/plain"}

\* getDocumentLoader returns a loader (does not throw).
HasLoader(r) == r.filePath \in Urls \/ r.type \in SupportedTypes

\* embed with an uploaded file: filePath is multer's req.file.path.
StartEmbedFile(p, cap) ==
    /\ pc[p] = "idle"
    /\ CanIngest(cap)
    /\ \E path \in Uploads, mime \in MimeTypes, ext \in Extensions :
          req' = [req EXCEPT ![p] = [op |-> "embed", filePath |-> path,
                                     hasFile |-> TRUE, type |-> FileType(mime, ext)]]
    /\ pc' = [pc EXCEPT ![p] = "conn"]
    /\ UNCHANGED <<storeVars, res>>
    /\ UNCHANGED localVars

\* embed without a file: zod parses req.body.filePath as a URL, then the
\* page title is fetched.
StartEmbedUrl(p, cap) ==
    /\ pc[p] = "idle"
    /\ CanIngest(cap)
    /\ \E body \in Urls :
          req' = [req EXCEPT ![p] = [op |-> "embed", filePath |-> body,
                                     hasFile |-> FALSE, type |-> Undefined]]
    /\ pc' = [pc EXCEPT ![p] = "conn"]
    /\ UNCHANGED <<storeVars, res>>
    /\ UNCHANGED localVars

\* z.string().url().parse throws on an absent or malformed filePath, or
\* getPageTitle throws: the catch block answers 500.
StartEmbedUrlFail(p) ==
    /\ pc[p] = "idle"
    /\ \E body \in BodyPaths :
          req' = [req EXCEPT ![p] = [op |-> "embed",
                                     filePath |-> IF body = Undefined THEN "" ELSE body,
                                     hasFile |-> FALSE, type |-> Undefined]]
    /\ Respond(p, "500")
    /\ UNCHANGED <<storeVars, files, idx, found, docs, chunkKeys, metadataIds, threw, cmds>>

\* Mutant of LoaderUnsupported: the switch falls back to a TextLoader for an
\* unknown type, so the file is loaded and split.
LoaderUnsupportedFallback(p) ==
    /\ pc[p] = "e_proc"
    /\ ~HasLoader(req[p])
    /\ \E n \in 0..MaxChunks : docs' = [docs EXCEPT ![p] = n]
    /\ pc' = [pc EXCEPT ![p] = "e_store"]
    /\ UNCHANGED <<storeVars, req, res, files, idx, found, chunkKeys, metadataIds, threw, cmds, unlinked>>

\* getDocumentLoader throws 'Unsupported file type'.
LoaderUnsupported(p) ==
    /\ pc[p] = "e_proc"
    /\ ~HasLoader(req[p])
    /\ Respond(p, "500")
    /\ UNCHANGED <<storeVars, req, files, idx, found, docs, chunkKeys, metadataIds, threw, cmds>>

\* loader.load() or splitDocuments throws.
LoadFail(p) ==
    /\ pc[p] = "e_proc"
    /\ HasLoader(req[p])
    /\ Respond(p, "500")
    /\ UNCHANGED <<storeVars, req, files, idx, found, docs, chunkKeys, metadataIds, threw, cmds>>

\* loadAndSplitDocuments returns n documents (chunks).
LoadAndSplit(p) ==
    /\ pc[p] = "e_proc"
    /\ HasLoader(req[p])
    /\ \E n \in 0..MaxChunks : docs' = [docs EXCEPT ![p] = n]
    /\ pc' = [pc EXCEPT ![p] = "e_store"]
    /\ UNCHANGED <<storeVars, req, res, files, idx, found, chunkKeys, metadataIds, threw, cmds, unlinked>>

\* uniqueKey = `${keyPrefix}${i}`
UniqueKey(prefix, i) == <<prefix, i>>

\* documents[i].metadata.id = uniqueKey, for every document in order.
MetadataIds(prefix, n) == [k \in 1..n |-> UniqueKey(prefix, k - 1)]

\* Mutant of ChunkKeys: the pushed keys count from 1.
ChunkKeysFromOne(prefix, n) == [k \in 1..n |-> <<prefix, k>>]

\* Mutant of ChunkKeys: the key is the chunk index alone, without the run
\* prefix.
ChunkKeysNoPrefix(prefix, n) == [k \in 1..n |-> <<0, k - 1>>]

\* Mutant of ChunkKeys: the key loop stops one document early.
ChunkKeysShort(prefix, n) == [k \in 1..(n - 1) |-> <<prefix, k - 1>>]

\* keyPrefix = `rds:${nanoid()}:`; the value of nanoid() is its draw number.
\* uniqueKey = `${keyPrefix}${i}` for i = 0..n-1, a (prefix, i) pair here.
ChunkKeys(prefix, n) == [k \in 1..n |-> <<prefix, k - 1>>]

\* storeEmbeddings: RedisVectorStore.fromDocuments makes sure the index
\* exists and writes one vector record per document under its key.
StoreEmbeddings(p) ==
    /\ pc[p] = "e_store"
    /\ nextPrefix' = nextPrefix + 1
    /\ chunkKeys' = [chunkKeys EXCEPT ![p] = ChunkKeys(nextPrefix, docs[p])]
    /\ metadataIds' = [metadataIds EXCEPT ![p] = MetadataIds(nextPrefix, docs[p])]
    /\ vectors' = vectors \cup Range(ChunkKeys(nextPrefix, docs[p]))
    /\ indexExists' = TRUE
    /\ cmds' = [cmds EXCEPT ![p] = cmds[p] \cup {"ensure"}]
    /\ pc' = [pc EXCEPT ![p] = "e_push"]
    /\ UNCHANGED <<ledger, clientVars, configVars, now, req, res, files, idx, found, docs, threw, unlinked>>

\* Mutant of StoreEmbeddingsFail: the metadata is pushed before the vector
\* write, so a failed write leaves a ledger record behind.
StoreEmbeddingsFailAfterPush(p) ==
    /\ pc[p] = "e_store"
    /\ nextPrefix' = nextPrefix + 1
    /\ chunkKeys' = [chunkKeys EXCEPT ![p] = ChunkKeys(nextPrefix, docs[p])]
    /\ metadataIds' = [metadataIds EXCEPT ![p] = MetadataIds(nextPrefix, docs[p])]
    /\ ledger' = LPush(ledger, JSONStringify(
                    [filePath |-> req[p].filePath, processedAt |-> now + 1,
                     chunkKeys |-> ChunkKeys(nextPrefix, docs[p])]))
    /\ now' = now + 1
    /\ threw' = [threw EXCEPT ![p] = TRUE]
    /\ Respond(p, "500")
    /\ UNCHANGED <<vectors, indexExists, clientVars, configVars, req, files, idx, found, docs, cmds>>

\* fromDocuments rejects (embedding call or store write failed) after the
\* first k vector records were written; storeEmbeddings rethrows.
StoreEmbeddingsFail(p) ==
    /\ pc[p] = "e_store"
    /\ nextPrefix' = nextPrefix + 1
    /\ chunkKeys' = [chunkKeys EXCEPT ![p] = ChunkKeys(nextPrefix, docs[p])]
    /\ metadataIds' = [metadataIds EXCEPT ![p] = MetadataIds(nextPrefix, docs[p])]
    /\ \E k \in 0..docs[p] :
          /\ vectors' = vectors \cup Range(ChunkKeys(nextPrefix, k))
          /\ indexExists' = (indexExists \/ k > 0)
    /\ cmds' = [cmds EXCEPT ![p] = cmds[p] \cup {"ensure"}]
    /\ threw' = [threw EXCEPT ![p] = TRUE]
    /\ Respond(p, "500")
    /\ UNCHANGED <<ledger, clientVars, configVars, now, req, files, idx, found, docs>>

Metadata(p) ==
    [filePath |-> req[p].filePath, processedAt |-> now + 1, chunkKeys |-> chunkKeys[p]]

\* lPush of the metadata, then 200.
LPushMetadata(p) ==
    /\ pc[p] = "e_push"
    /\ now' = now + 1
    /\ ledger' = LPush(ledger, JSONStringify(Metadata(p)))
    /\ Respond(p, "200")
    /\ UNCHANGED <<vectors, indexExists, clientVars, configVars, nextPrefix,
                   req, files, idx, found, docs, chunkKeys, metadataIds, threw, cmds>>

\* Mutant of LPushFail: the catch block deletes the vector records the
\* ingest has written.
LPushFailCleanup(p) ==
    /\ pc[p] = "e_push"
    /\ vectors' = vectors \ Range(chunkKeys[p])
    /\ threw' = [threw EXCEPT ![p] = TRUE]
    /\ Respond(p, "500")
    /\ UNCHANGED <<ledger, indexExists, clientVars, configVars, nextPrefix, now,
                   req, files, idx, found, docs, chunkKeys, metadataIds, cmds>>

\* lPush rejects: the catch block answers 500.
LPushFail(p) ==
    /\ pc[p] = "e_push"
    /\ threw' = [threw EXCEPT ![p] = TRUE]
    /\ Respond(p, "500")
    /\ UNCHANGED <<storeVars, req, files, idx, found, docs, chunkKeys, metadataIds, cmds>>

\* ---------------------------------------------------------------- delete
\* The body of delete's inner try for one entry: JSON.parse succeeded and
\* metadata.filePath === filePath.
Matches(str, path) == JSONParse(str).ok /\ JSONParse(str).value.filePath = path

\* Mutant of ScanDown: the filePath comparison is missing, every entry is
\* taken as a match.
ScanDownAny(fs, path, i) == i

\* The loop `for (i = files.length - 1; i >= 0; i--)`: the next index at or
\* below i whose entry matches (entries that fail to parse or have another
\* path are passed over without an await); 0 when the loop runs out.
RECURSIVE ScanDown(_, _, _)
ScanDown(fs, path, i) ==
    IF i = 0 THEN 0
    ELSE IF Matches(fs[i], path) THEN i
    ELSE ScanDown(fs, path, i - 1)

\* Mutant of Continue: the loop breaks after the first matching entry.
ContinueBreak(p, fs, i, fnd) ==
    LET j == IF fnd THEN 0 ELSE ScanDown(fs, req[p].filePath, i - 1) IN
    /\ idx' = [idx EXCEPT ![p] = j]
    /\ found' = [found EXCEPT ![p] = (fnd \/ j > 0)]
    /\ IF j = 0
       THEN Respond(p, IF fnd THEN "200" ELSE "404")
       ELSE /\ pc' = [pc EXCEPT ![p] =
                        IF Len(JSONParse(fs[j]).value.chunkKeys) > 0
                        THEN "d_exec" ELSE "d_lset"]
            /\ UNCHANGED <<res, unlinked>>

\* Control reaches the loop header with index i already handled: run on to
\* the next await (found = true at a matching entry, then pipeline.exec()
\* when it has chunk keys, else lSet) or to the end of the handler
\* (404 when nothing was found, else 200).
Continue(p, fs, i, fnd) ==
    LET j == ScanDown(fs, req[p].filePath, i - 1) IN
    /\ idx' = [idx EXCEPT ![p] = j]
    /\ found' = [found EXCEPT ![p] = (fnd \/ j > 0)]
    /\ IF j = 0
       THEN Respond(p, IF fnd THEN "200" ELSE "404")
       ELSE /\ pc' = [pc EXCEPT ![p] =
                        IF Len(JSONParse(fs[j]).value.chunkKeys) > 0
                        THEN "d_exec" ELSE "d_lset"]
            /\ UNCHANGED <<res, unlinked>>

\* delete without req.body.filePath: 400 before any store access.
StartDeleteNoPath(p) ==
    /\ pc[p] = "idle"
    /\ req' = [req EXCEPT ![p] = [op |-> "delete", filePath |-> "",
                                  hasFile |-> FALSE, type |-> Undefined]]
    /\ Respond(p, "400")
    /\ UNCHANGED <<storeVars, files, idx, found, docs, chunkKeys, metadataIds, threw, cmds>>

StartDelete(p) ==
    /\ pc[p] = "idle"
    /\ \E body \in Paths :
          req' = [req EXCEPT ![p] = [op |-> "delete", filePath |-> body,
                                     hasFile |-> FALSE, type |-> Undefined]]
    /\ pc' = [pc EXCEPT ![p] = "conn"]
    /\ UNCHANGED <<storeVars, res>>
    /\ UNCHANGED localVars

\* files = await lRange(...); found = false; the loop starts at the tail.
DeleteLRange(p) ==
    /\ pc[p] = "d_range"
    /\ files' = [files EXCEPT ![p] = ledger]
    /\ Continue(p, ledger, Len(ledger) + 1, FALSE)
    /\ UNCHANGED <<storeVars, req, docs, chunkKeys, metadataIds, threw, cmds>>

\* lRange rejects (delete or get): the outer catch answers 500.
LRangeFail(p) ==
    /\ pc[p] \in {"d_range", "g_range"}
    /\ threw' = [threw EXCEPT ![p] = TRUE]
    /\ Respond(p, "500")
    /\ UNCHANGED <<storeVars, req, files, idx, found, docs, chunkKeys, metadataIds, cmds>>

\* Mutant of MatchedKeys: the pipeline deletes the chunk keys of every
\* entry of the list that was read.
AllListedKeys(p) ==
    UNION {Range(JSONParse(files[p][k]).value.chunkKeys) : k \in 1..Len(files[p])}

\* Mutant of MatchedKeys: the pipeline deletes every key under 'rds:'.
EveryVectorKey(p) == vectors

\* The chunk keys of the entry delete matched at its index i.
MatchedKeys(p) == Range(JSONParse(files[p][idx[p]]).value.chunkKeys)

\* Mutant of DeleteExec: the pipeline holds the first chunk key only.
DeleteExecFirstKey(p) ==
    /\ pc[p] = "d_exec"
    /\ vectors' = vectors \ {JSONParse(files[p][idx[p]]).value.chunkKeys[1]}
    /\ pc' = [pc EXCEPT ![p] = "d_lset"]
    /\ UNCHANGED <<ledger, indexExists, clientVars, configVars, nextPrefix, now, req, res>>
    /\ UNCHANGED localVars

\* pipeline.exec(): every chunk key of the matched entry is deleted.
DeleteExec(p) ==
    /\ pc[p] = "d_exec"
    /\ vectors' = vectors \ MatchedKeys(p)
    /\ pc' = [pc EXCEPT ![p] = "d_lset"]
    /\ UNCHANGED <<ledger, indexExists, clientVars, configVars, nextPrefix, now, req, res>>
    /\ UNCHANGED localVars

\* pipeline.exec() rejects: the inner catch swallows it and continues.
DeleteExecFail(p) ==
    /\ pc[p] = "d_exec"
    /\ threw' = [threw EXCEPT ![p] = TRUE]
    /\ Continue(p, files[p], idx[p], TRUE)
    /\ UNCHANGED <<storeVars, req, files, docs, chunkKeys, metadataIds, cmds>>

\* Mutant of DeleteLSet: the placeholder is written over the matched entry
\* wherever it is in the list now, and nowhere when it is gone.
DeleteLSetByValue(p) ==
    /\ pc[p] = "d_lset"
    /\ ledger' = [k \in 1..Len(ledger) |->
                    IF k = FirstIndexOf(ledger, files[p][idx[p]])
                    THEN DELETED ELSE ledger[k]]
    /\ pc' = [pc EXCEPT ![p] = "d_lrem"]
    /\ UNCHANGED <<idx, found, threw, res, unlinked>>
    /\ UNCHANGED <<vectors, indexExists, clientVars, configVars, nextPrefix, now,
                   req, files, docs, chunkKeys, metadataIds, cmds>>

\* lSet(key, i, '__DELETED__') on the list as it is now; Redis answers
\* 'index out of range' when the list has become shorter, which the inner
\* catch swallows.
DeleteLSet(p) ==
    /\ pc[p] = "d_lset"
    /\ IF idx[p] <= Len(ledger)
       THEN /\ ledger' = LSet(ledger, idx[p], DELETED)
            /\ pc' = [pc EXCEPT ![p] = "d_lrem"]
            /\ UNCHANGED <<idx, found, threw, res, unlinked>>
       ELSE /\ threw' = [threw EXCEPT ![p] = TRUE]
            /\ Continue(p, files[p], idx[p], TRUE)
            /\ UNCHANGED ledger
    /\ UNCHANGED <<vectors, indexExists, clientVars, configVars, nextPrefix, now,
                   req, files, docs, chunkKeys, metadataIds, cmds>>

\* lSet rejects for a store error.
DeleteLSetFail(p) ==
    /\ pc[p] = "d_lset"
    /\ threw' = [threw EXCEPT ![p] = TRUE]
    /\ Continue(p, files[p], idx[p], TRUE)
    /\ UNCHANGED <<storeVars, req, files, docs, chunkKeys, metadataIds, cmds>>

\* lRem(key, 1, '__DELETED__'), then the next iteration.
DeleteLRem(p) ==
    /\ pc[p] = "d_lrem"
    /\ ledger' = LRem(ledger, DELETED)
    /\ Continue(p, files[p], idx[p], TRUE)
    /\ UNCHANGED <<vectors, indexExists, clientVars, configVars, nextPrefix, now,
                   req, files, docs, chunkKeys, metadataIds, threw, cmds>>

\* lRem rejects: swallowed, the placeholder stays in the list.
DeleteLRemFail(p) ==
    /\ pc[p] = "d_lrem"
    /\ threw' = [threw EXCEPT ![p] = TRUE]
    /\ Continue(p, files[p], idx[p], TRUE)
    /\ UNCHANGED <<storeVars, req, files, docs, chunkKeys, metadataIds, cmds>>

\* ------------------------------------------------------------------- get
StartGet(p) ==
    /\ pc[p] = "idle"
    /\ req' = [req EXCEPT ![p] = [op |-> "get", filePath |-> "",
                                  hasFile |-> FALSE, type |-> Undefined]]
    /\ pc' = [pc EXCEPT ![p] = "conn"]
    /\ UNCHANGED <<storeVars, res>>
    /\ UNCHANGED localVars

\* files.map(entry => parse(entry), or the entry itself when parse throws).
ProcessedFiles(list) ==
    [k \in 1..Len(list) |->
        [parsed |-> JSONParse(list[k]).ok,
         value |-> JSONParse(list[k]).value,
         raw |-> IF JSONParse(list[k]).ok THEN NoMeta ELSE list[k].meta]]

\* get: lRange, map, 200 with the mapped list as body.
GetLRange(p) ==
    /\ pc[p] = "g_range"
    /\ files' = [files EXCEPT ![p] = ledger]
    /\ Respond(p, "200")
    /\ UNCHANGED <<storeVars, req, idx, found, docs, chunkKeys, metadataIds, threw, cmds>>

\* ------------------------------------------------------- specifications
\* Steps in which every store command succeeds.
Step(p) ==
    \/ WithRedisConnection(p)
    \/ Connected(p)
    \/ LoaderUnsupported(p)
    \/ LoadFail(p)
    \/ LoadAndSplit(p)
    \/ StoreEmbeddings(p)
    \/ LPushMetadata(p)
    \/ DeleteLRange(p)
    \/ DeleteExec(p)
    \/ DeleteLSet(p)
    \/ DeleteLRem(p)
    \/ GetLRange(p)
    \/ Return(p)

\* Steps in which a store command rejects.
Fault(p) ==
    \/ ConnectFail(p)
    \/ StoreEmbeddingsFail(p)
    \/ LPushFail(p)
    \/ LRangeFail(p)
    \/ DeleteExecFail(p)
    \/ DeleteLSetFail(p)
    \/ DeleteLRemFail(p)

Start(p, cap) ==
    \/ StartEmbedFile(p, cap)
    \/ StartEmbedUrl(p, cap)
    \/ StartEmbedUrlFail(p)
    \/ StartDeleteNoPath(p)
    \/ StartDelete(p)
    \/ StartGet(p)

\* Requests arrive at any time; any store command may reject.
Next == \E p \in Handlers : Start(p, MaxRacing) \/ Step(p) \/ Fault(p)

Spec == Init /\ [][Next]_vars

\* Serialized execution on a store whose commands succeed: a request starts
\* only when no other request is in flight.
SerialNext == \E p \in Handlers : (Quiet /\ Start(p, MaxIngests)) \/ Step(p)

SpecSerial == Init /\ [][SerialNext]_vars

\* ------------------------------------------------------------- reconnect
Min(a, b) == IF a <= b THEN a ELSE b

\* Mutant of ReconnectStrategy: the cap is missing.
ReconnectStrategyUnbounded(n) == (2 ^ n) * 100

\* reconnectStrategy: (retries) => Math.min(Math.pow(2, retries) * 100, 10000)
ReconnectStrategy(n) == Min((2 ^ n) * 100, 10000)

\* The socket has dropped or a reconnect attempt has failed: the client asks
\* reconnectStrategy for the delay before attempt number retries.
Reconnect ==
    /\ retries <= MaxRetries
    /\ lastDelay' = delay
    /\ delay' = ReconnectStrategy(retries)
    /\ retries' = retries + 1
    /\ UNCHANGED <<ledger, vectors, indexExists, connVars, configVars, nextPrefix, now,
                   pc, req, res>>
    /\ UNCHANGED localVars

\* The socket is connected again: the retry count starts over.
SocketReady ==
    /\ retries > 0
    /\ retries' = 0
    /\ UNCHANGED <<ledger, vectors, indexExists, connVars, delay, lastDelay, configVars,
                   nextPrefix, now, pc, req, res>>
    /\ UNCHANGED localVars

\* The reconnect strategy applied to every retry count up to MaxRetries.
InitReconnect ==
    /\ InitHandlers
    /\ retries \in 0..MaxRetries
    /\ delay = 0
    /\ lastDelay = 0
    /\ reqBody = NoBody
    /\ fileConfig = NoChunk
    /\ chunk = NoChunk

ReconnectNext == Reconnect \/ SocketReady

SpecReconnect == InitReconnect /\ [][ReconnectNext]_vars

\* Serialized execution on a store whose commands may reject.
SerialFaultNext ==
    \E p \in Handlers : (Quiet /\ Start(p, MaxIngests)) \/ Step(p) \/ Fault(p)

SpecSerialFault == Init /\ [][SerialFaultNext]_vars

\* Serialized ingests that succeed and serialized deletes whose store
\* commands may reject.
DeleteFaultStep(p) ==
    \/ WithRedisConnection(p)
    \/ Connected(p)
    \/ LoaderUnsupported(p)
    \/ LoadAndSplit(p)
    \/ StoreEmbeddings(p)
    \/ LPushMetadata(p)
    \/ DeleteLRange(p)
    \/ DeleteExec(p)
    \/ DeleteLSet(p)
    \/ DeleteLRem(p)
    \/ Return(p)

DeleteFault(p) ==
    \/ LRangeFail(p)
    \/ DeleteExecFail(p)
    \/ DeleteLSetFail(p)
    \/ DeleteLRemFail(p)

DeleteFaultStart(p) ==
    \/ StartEmbedFile(p, MaxLedger)
    \/ StartEmbedUrl(p, MaxLedger)
    \/ StartDelete(p)

DeleteFaultNext ==
    \E p \in Handlers : (Quiet /\ DeleteFaultStart(p)) \/ DeleteFaultStep(p) \/ DeleteFault(p)

SpecDeleteFault == Init /\ [][DeleteFaultNext]_vars

\* ---------------------------------------------------------- chunk config
\* Values req.body.chunkSize and req.body.chunkOverlap can have.
ChunkInputs == {JSUndefined, JSText} \cup {JSNumber(n) : n \in 0..MaxChunkInput}

\* fileConfig.chunk as embed builds it: the literal { overlap: 200, size:
\* 1000 }; req.body is not read.
EmbedChunk(b) == [overlap |-> JSNumber(200), size |-> JSNumber(1000)]

\* v || d for a number-typed v: d when v is undefined, 0 or NaN.
Or(v, d) ==
    IF v.kind = "number" /\ v.n # 0 THEN v ELSE JSNumber(d)

\* The chunk processAndStoreEmbeddings passes to loadAndSplitDocuments.
ProcessChunk(fc) ==
    [overlap |-> Or(fc.overlap, 200), size |-> Or(fc.size, 1000)]

\* embed builds fileConfig.
BuildFileConfig ==
    /\ fileConfig = NoChunk
    /\ fileConfig' = EmbedChunk(reqBody)
    /\ UNCHANGED <<ledger, vectors, indexExists, clientVars, reqBody, chunk,
                   nextPrefix, now, pc, req, res>>
    /\ UNCHANGED localVars

\* processAndStoreEmbeddings fills in the defaults and configures the
\* splitter with the result.
SplitterChunk ==
    /\ fileConfig # NoChunk
    /\ chunk = NoChunk
    /\ chunk' = ProcessChunk(fileConfig)
    /\ UNCHANGED <<ledger, vectors, indexExists, clientVars, reqBody, fileConfig,
                   nextPrefix, now, pc, req, res>>
    /\ UNCHANGED localVars

\* An embed request with any chunkSize and chunkOverlap.
InitChunk ==
    /\ InitHandlers
    /\ retries = 0
    /\ delay = 0
    /\ lastDelay = 0
    /\ reqBody \in [chunkSize : ChunkInputs, chunkOverlap : ChunkInputs]
    /\ fileConfig = NoChunk
    /\ chunk = NoChunk

ChunkNext == BuildFileConfig \/ SplitterChunk

SpecChunk == InitChunk /\ [][ChunkNext]_vars

\* Overlapping requests on a store whose commands succeed once the client
\* is connected: only connect() may reject.
ConnectNext == \E p \in Handlers : Start(p, MaxRacing) \/ Step(p) \/ ConnectFail(p)

SpecConnect == Init /\ [][ConnectNext]_vars

\* Overlapping ingests and reads, no delete; any store command may reject.
IngestStart(p) ==
    \/ StartEmbedFile(p, MaxIngests)
    \/ StartEmbedUrl(p, MaxIngests)
    \/ StartEmbedUrlFail(p)
    \/ StartGet(p)

IngestStep(p) ==
    \/ WithRedisConnection(p)
    \/ Connected(p)
    \/ LoaderUnsupported(p)
    \/ LoadFail(p)
    \/ LoadAndSplit(p)
    \/ StoreEmbeddings(p)
    \/ LPushMetadata(p)
    \/ GetLRange(p)
    \/ Return(p)

IngestFault(p) ==
    \/ ConnectFail(p)
    \/ StoreEmbeddingsFail(p)
    \/ LPushFail(p)
    \/ LRangeFail(p)

IngestNext == \E p \in Handlers : IngestStart(p) \/ IngestStep(p) \/ IngestFault(p)

SpecIngest == Init /\ [][IngestNext]_vars

\* The isConnecting revision serving overlapping get and delete requests;
\* connect() may resolve or reject and the client may emit error events.
FlagStep(p) ==
    \/ StartGet(p)
    \/ StartDelete(p)
    \/ FlagEnsureConnection(p)
    \/ FlagWake(p)
    \/ FlagConnected(p)
    \/ FlagConnectFail(p)
    \/ GetLRange(p)
    \/ DeleteLRange(p)
    \/ Return(p)

FlagNext == (\E p \in Handlers : FlagStep(p)) \/ ErrorEvent

SpecFlag == Init /\ [][FlagNext]_vars

\* ------------------------------------------------------ claim helpers
\* Indices of the entries of a list that delete(path) matches.
MatchIdx(list, path) == {k \in 1..Len(list) : Matches(list[k], path)}

\* Chunk keys recorded in a ledger entry (none for an entry that fails to parse).
KeysOf(str) == Range(JSONParse(str).value.chunkKeys)

\* The list without the entries delete(path) matches, order kept.
Surviving(list, path) ==
    LET Keep(e) == ~Matches(e, path) IN SelectSeq(list, Keep)

IsDelete(p) == req[p].op = "delete"
IsEmbed(p) == req[p].op = "embed"

\* C1: a delete that has read a ledger in which no parseable entry has its
\* path ends at once with 404 (found = false) and changes neither the
\* ledger list nor any vector record.
C1_DeleteMissingPath ==
    [][\A p \in Handlers :
        (/\ pc[p] = "d_range"
         /\ pc'[p] # "d_range"
         /\ ~threw'[p]
         /\ MatchIdx(ledger, req[p].filePath) = {})
        => (/\ pc'[p] = "done"
            /\ res'[p] = "404"
            /\ ~found'[p]
            /\ ledger' = ledger
            /\ vectors' = vectors)]_vars

\* A delete answered 404 on a ledger that holds a record of another path and
\* an entry that does not parse, with vector records in the store.
C1_Witness ==
    \E p \in Handlers :
        /\ pc[p] = "done" /\ IsDelete(p) /\ res[p] = "404"
        /\ files[p] = ledger
        /\ \E k \in 1..Len(ledger) : ~JSONParse(ledger[k]).ok
        /\ \E k \in 1..Len(ledger) : JSONParse(ledger[k]).ok /\ KeysOf(ledger[k]) # {}
        /\ vectors # {}

\* C2: in a serialized execution a delete whose ledger holds exactly one
\* record of its path answers 200 (found), none of that record's chunk keys
\* is left in the vector store, and the ledger is the list it read without
\* that one entry, the others in their order.
C2_DeleteSingleRecord ==
    \A p \in Handlers :
        (/\ pc[p] = "done" /\ IsDelete(p)
         /\ Cardinality(MatchIdx(files[p], req[p].filePath)) = 1)
        => LET j == CHOOSE k \in MatchIdx(files[p], req[p].filePath) : TRUE IN
           /\ res[p] = "200"
           /\ found[p]
           /\ KeysOf(files[p][j]) \cap vectors = {}
           /\ Len(ledger) = Len(files[p]) - 1
           /\ \A k \in 1..Len(ledger) :
                 ledger[k] = IF k < j THEN files[p][k] ELSE files[p][k + 1]

\* The single matching record sat between two records of the other path.
C2_Witness ==
    \E p \in Handlers :
        /\ pc[p] = "done" /\ IsDelete(p) /\ res[p] = "200"
        /\ Len(files[p]) = 3
        /\ MatchIdx(files[p], req[p].filePath) = {2}
        /\ KeysOf(files[p][2]) # {}
        /\ Len(ledger) = 2

\* C3: a delete that has removed the last ledger record (the ledger is
\* empty when it answers) has issued an index reset.
C3_ResetOnLastDelete ==
    \A p \in Handlers :
        (/\ pc[p] = "done" /\ IsDelete(p) /\ res[p] = "200"
         /\ Len(files[p]) > 0
         /\ ledger = <<>>)
        => "reset" \in cmds[p]

\* C4: an ingest that has written its vector records has issued an index
\* reset when the ledger was empty, and only an ensure otherwise.
C4_IngestChecksLedger ==
    \A p \in Handlers :
        (IsEmbed(p) /\ pc[p] = "e_push")
        => IF ledger = <<>> THEN "reset" \in cmds[p] ELSE cmds[p] = {"ensure"}

\* C5: the only step of an ingest that changes the ledger list is its last
\* one, the lPush that is followed by the 200 answer; an ingest that ends
\* before it answers 500, and a step that answers 500 leaves the ledger
\* unchanged.
C5_LedgerAppendLast ==
    [][\A p \in Handlers :
        (req'[p].op = "embed" /\ pc'[p] # pc[p])
        => (/\ (ledger' # ledger => (pc[p] = "e_push" /\ res'[p] = "200"))
            /\ (res'[p] = "500" => ledger' = ledger)
            /\ ((pc'[p] = "done" /\ pc[p] # "e_push") => res'[p] = "500"))]_vars

\* An ingest failed in the vector write after some records were written.
C5_Witness ==
    \E p \in Handlers :
        /\ pc[p] = "done" /\ IsEmbed(p) /\ res[p] = "500" /\ threw[p]
        /\ Range(chunkKeys[p]) \cap vectors # {}
        /\ \A k \in 1..Len(ledger) : KeysOf(ledger[k]) \cap Range(chunkKeys[p]) = {}

\* C6: the lPush of a successful ingest makes the list that get returns one
\* element longer: the old elements follow the new one, and the new one is a
\* record with as many chunk keys as the split returned documents.
C6_IngestThenList ==
    [][\A p \in Handlers :
        (pc[p] = "e_push" /\ pc'[p] = "done" /\ res'[p] = "200")
        => LET before == ProcessedFiles(ledger)
               after == ProcessedFiles(ledger') IN
           /\ Len(after) = Len(before) + 1
           /\ \A k \in 1..Len(before) : after[k + 1] = before[k]
           /\ after[1].parsed
           /\ after[1].value.filePath = req[p].filePath
           /\ Len(after[1].value.chunkKeys) = docs[p]]_vars

\* An ingest of two chunks has answered 200 on a ledger that had a record.
C6_Witness ==
    \E p \in Handlers :
        /\ pc[p] = "done" /\ IsEmbed(p) /\ res[p] = "200"
        /\ docs[p] = 2
        /\ Len(ledger) >= 2
        /\ ProcessedFiles(ledger)[1].value.chunkKeys = chunkKeys[p]

\* C7: a delete in which a store command rejected answers 500.
C7_DeleteSurfacesError ==
    \A p \in Handlers :
        (pc[p] = "done" /\ IsDelete(p) /\ threw[p]) => res[p] = "500"

\* Pairs of a ledger record and one of its chunk keys that names no vector
\* record.
Missing(list, vecs) ==
    {pair \in Range(list) \X UNION {KeysOf(e) : e \in Range(list)} :
        pair[2] \in KeysOf(pair[1]) /\ pair[2] \notin vecs}

C9_DeleteAllMatches ==
    /\ \A i, j \in 1..Len(ledger) :
          (i # j /\ JSONParse(ledger[i]).ok /\ JSONParse(ledger[j]).ok
           /\ JSONParse(ledger[i]).value.filePath = JSONParse(ledger[j]).value.filePath)
          => KeysOf(ledger[i]) \cap KeysOf(ledger[j]) = {}
    /\ \A p \in Handlers :
          (/\ pc[p] = "done" /\ IsDelete(p)
           /\ Cardinality(MatchIdx(files[p], req[p].filePath)) >= 2)
          => (/\ res[p] = "200"
              /\ ledger = Surviving(files[p], req[p].filePath)
              /\ \A k \in 1..Len(files[p]) :
                    IF k \in MatchIdx(files[p], req[p].filePath)
                    THEN KeysOf(files[p][k]) \cap vectors = {}
                    ELSE KeysOf(files[p][k]) \subseteq vectors)

\* Two records of the deleted path, both with chunk keys, around a record of
\* the other path with chunk keys.
C9_Witness ==
    \E p \in Handlers :
        /\ pc[p] = "done" /\ IsDelete(p) /\ res[p] = "200"
        /\ MatchIdx(files[p], req[p].filePath) = {1, 3}
        /\ \A k \in 1..3 : KeysOf(files[p][k]) # {}
        /\ Len(ledger) = 1

\* C10: delete substitutes by index on the list as it is now.  When an
\* ingest has pushed a record on the head since the delete read the list,
\* the lSet overwrites the entry that now sits at the matched index, which
\* is not the matched entry; the matched entry stays, one position further.
C10_StaleIndexHitsOtherEntry ==
    [][\A p \in Handlers :
        (/\ pc[p] = "d_lset" /\ pc'[p] = "d_lrem"
         /\ Len(ledger) = Len(files[p]) + 1
         /\ Tail(ledger) = files[p])
        => (/\ ledger[idx[p]] # files[p][idx[p]]
            /\ ledger' = [ledger EXCEPT ![idx[p]] = DELETED]
            /\ ledger'[idx[p] + 1] = files[p][idx[p]])]_vars

\* The placeholder stands where the record an ingest has just pushed stood
\* (its vector records are left without a ledger record), and the matched
\* entry, whose vector records are gone, is still in the list behind it.
C10_Witness ==
    \E p \in Handlers :
        /\ pc[p] = "d_lrem"
        /\ Len(ledger) = Len(files[p]) + 1
        /\ ledger[idx[p]] = DELETED
        /\ ledger[idx[p] + 1] = files[p][idx[p]]
        /\ KeysOf(files[p][idx[p]]) # {}
        /\ KeysOf(files[p][idx[p]]) \cap vectors = {}
        /\ \E q \in Handlers \ {p} :
              /\ IsEmbed(q) /\ pc[q] = "done" /\ res[q] = "200"
              /\ Range(chunkKeys[q]) # {}
              /\ Range(chunkKeys[q]) \subseteq vectors
              /\ \A k \in 1..Len(ledger) : KeysOf(ledger[k]) # Range(chunkKeys[q])

\* C11: two deletes of one path that read the same list both match the same
\* record and both execute the deletion of its chunk keys.  When the first
\* has removed the record, the second substitutes by index on the shortened
\* list: it overwrites the entry that has moved to the matched index (a
\* record it did not match), or the index is out of range, the command
\* rejects and the delete goes on with the error swallowed.
C11_SecondDeleteOnShortenedList ==
    [][\A p \in Handlers :
        (/\ pc[p] = "d_lset" /\ pc'[p] # "d_lset"
         /\ ledger = RemoveAt(files[p], idx[p]))
        => IF pc'[p] = "d_lrem"
           THEN /\ idx[p] <= Len(ledger)
                /\ ledger[idx[p]] = files[p][idx[p] + 1]
                /\ ledger' = [ledger EXCEPT ![idx[p]] = DELETED]
           ELSE /\ ledger' = ledger
                /\ threw'[p]]_vars

\* Two deletes of one path read the same list and both executed the
\* deletion of the keys of the same record; the first has removed the
\* record and answered 200, the second has then put the placeholder over
\* the record of the other path that moved to the matched index.
C11_Witness ==
    \E p \in Handlers, q \in Handlers :
        /\ p # q /\ IsDelete(p) /\ IsDelete(q)
        /\ req[p].filePath = req[q].filePath
        /\ files[p] = files[q] /\ Len(files[p]) = 2
        /\ pc[q] = "done" /\ res[q] = "200" /\ ~threw[q]
        /\ pc[p] = "d_lrem" /\ idx[p] = 1 /\ ~threw[p]
        /\ KeysOf(files[p][1]) # {}
        /\ ~Matches(files[p][2], req[p].filePath)
        /\ ledger = <<DELETED>>
        /\ KeysOf(files[p][2]) # {}
        /\ KeysOf(files[p][2]) \subseteq vectors

\* The creators of the connect() calls that are in flight.
InFlight == {o \in Handlers : connects[o] # {}}

\* C12: at most one connect() is in flight at any time, every handler that
\* waits for the connection awaits the promise the marker holds, and the
\* handlers awaiting it observe its outcome together: all start their
\* operation when it resolves, all answer 500 when it rejects.
C12_ConnectDeduplicated ==
    /\ [](/\ Cardinality(InFlight) <= 1
          /\ \A p \in Handlers :
                pc[p] = "connecting"
                => (connectionPromise # 0 /\ p \in connects[connectionPromise]))
    /\ [][\A p \in Handlers, q \in Handlers :
            (pc[p] = "connecting" /\ pc[q] = "connecting" /\ pc'[p] # "connecting")
            => IF isOpen'
               THEN /\ pc'[p] = AfterConnection(req[p].op)
                    /\ pc'[q] = AfterConnection(req[q].op)
               ELSE /\ pc'[p] = "done" /\ res'[p] = "500"
                    /\ pc'[q] = "done" /\ res'[q] = "500"]_vars

\* Two callers wait for one connect(): the second was handed the promise
\* the first created.
C12_Witness ==
    \E o \in Handlers :
        /\ connectionPromise = o
        /\ Cardinality(connects[o]) >= 2
        /\ \A p \in connects[o] : pc[p] = "connecting"

\* C13: whenever no connect() is in flight the marker is null, and a call
\* that finds the client closed with no connect() in flight creates a new
\* promise of its own (a fresh connect()) and awaits it.
C13_RetryAfterFailure ==
    /\ [](InFlight = {} => connectionPromise = 0)
    /\ [][\A p \in Handlers :
            (pc[p] = "conn" /\ pc'[p] # "conn" /\ ~isOpen /\ InFlight = {})
            => (/\ pc'[p] = "connecting"
                /\ connectionPromise' = p
                /\ connects' = [connects EXCEPT ![p] = {p}])]_vars

\* A request was answered 500 because connect() rejected, and a later call
\* awaits a connect() of its own.
C13_Witness ==
    \E p \in Handlers, q \in Handlers :
        /\ pc[p] = "done" /\ threw[p] /\ res[p] = "500"
        /\ ~isOpen
        /\ pc[q] = "connecting"
        /\ connectionPromise = q
        /\ connects[q] = {q}

\* Positions of a handler inside the operation passed to withRedisConnection.
InOperation(p) == pc[p] \notin {"idle", "conn", "connecting", "done"}

\* C14: a handler is inside its operation only when the client is open; as
\* long as no connect() has succeeded no operation has run (no list was
\* read, no key drawn, nothing written), and a handler whose connect()
\* rejected has answered 500.
C14_OperationAfterConnection ==
    /\ \A p \in Handlers : InOperation(p) => isOpen
    /\ ~isOpen =>
          /\ ledger = <<>> /\ vectors = {} /\ nextPrefix = 0 /\ ~indexExists
          /\ \A p \in Handlers :
                /\ files[p] = <<>> /\ chunkKeys[p] = <<>> /\ cmds[p] = {}
                /\ threw[p] => (pc[p] = "done" /\ res[p] = "500")

\* An ingest of an uploaded file ended with 500 because connect() rejected.
C14_Witness ==
    \E p \in Handlers :
        /\ pc[p] = "done" /\ IsEmbed(p) /\ req[p].hasFile
        /\ HasLoader(req[p])
        /\ threw[p] /\ res[p] = "500"
        /\ ~isOpen

\* C15: the delay returned for retry count n is the smaller of 2^n * 100
\* and 10000: it is at most each of them and equal to one of them; it is
\* never more than 10000, and the delay for n + 1 is not less than the one
\* for n.  (delay = 0: the strategy has not been asked yet.)
C15_BackoffBounded ==
    (retries >= 1 /\ delay > 0) =>
        LET n == retries - 1 IN
        /\ delay <= (2 ^ n) * 100
        /\ delay <= 10000
        /\ (delay = (2 ^ n) * 100 \/ delay = 10000)
        /\ (retries >= 2 => lastDelay <= delay)

\* Two consecutive retries on either side of the cap: 6400 then 10000.
C15_Witness == retries = 8 /\ lastDelay = 6400 /\ delay = 10000

\* C16: with a fresh run prefix per storeEmbeddings call, the chunk keys
\* built by two different ingests are disjoint, and no chunk key is
\* recorded in two different ledger records, whatever their paths and
\* chunk indices.
C16_KeysDisjoint ==
    /\ \A p \in Handlers, q \in Handlers :
          p # q => Range(chunkKeys[p]) \cap Range(chunkKeys[q]) = {}
    /\ \A i \in 1..Len(ledger), j \in 1..Len(ledger) :
          i # j => KeysOf(ledger[i]) \cap KeysOf(ledger[j]) = {}
    /\ \A p \in Handlers, i \in 1..Len(ledger) :
          (Range(chunkKeys[p]) \cap KeysOf(ledger[i]) # {})
          => JSONParse(ledger[i]).value.chunkKeys = chunkKeys[p]

\* Two records of the same path in the ledger, each with the chunk indices
\* 0 and 1, while the ingest that wrote the second is still answering.
C16_Witness ==
    /\ Len(ledger) = 2
    /\ JSONParse(ledger[1]).ok /\ JSONParse(ledger[2]).ok
    /\ JSONParse(ledger[1]).value.filePath = JSONParse(ledger[2]).value.filePath
    /\ {key[2] : key \in KeysOf(ledger[1])} = {0, 1}
    /\ {key[2] : key \in KeysOf(ledger[2])} = {0, 1}
    /\ \E p \in Handlers :
          pc[p] = "done" /\ IsEmbed(p) /\ Range(chunkKeys[p]) = KeysOf(ledger[1])

\* The list without the entries that fail to parse, order kept.
Parseable(list) ==
    LET Ok(e) == JSONParse(e).ok IN SelectSeq(list, Ok)

\* C17: the body of a get answered 200 has one element per parseable
\* entry of the list it read, in list order, each the parsed record, and no
\* element for an entry that fails to parse.
C17_ListSkipsCorrupt ==
    \A p \in Handlers :
        (pc[p] = "done" /\ req[p].op = "get" /\ res[p] = "200")
        => LET out == ProcessedFiles(files[p]) IN
           /\ Len(out) = Len(Parseable(files[p]))
           /\ \A k \in 1..Len(out) :
                 /\ out[k].parsed
                 /\ out[k].value = JSONParse(Parseable(files[p])[k]).value

\* Indices of the entries of a list that fail to parse.
CorruptIdx(list) == {k \in 1..Len(list) : ~JSONParse(list[k]).ok}

\* C18: a delete, none of whose store commands rejected, that read a list
\* with entries that fail to parse leaves no record of its path in the
\* list and none of the matched records' chunk keys in the store; the list
\* still has as many corrupt entries as before and every record of another
\* path; the answer is 200 when a record matched and 404 otherwise.
C18_CorruptEntriesInert ==
    \A p \in Handlers :
        (/\ pc[p] = "done" /\ IsDelete(p) /\ ~threw[p]
         /\ res[p] \in {"200", "404"}
         /\ CorruptIdx(files[p]) # {})
        => (/\ MatchIdx(ledger, req[p].filePath) = {}
            /\ \A k \in MatchIdx(files[p], req[p].filePath) :
                  KeysOf(files[p][k]) \cap vectors = {}
            /\ Cardinality(CorruptIdx(ledger)) = Cardinality(CorruptIdx(files[p]))
            /\ \A k \in 1..Len(files[p]) :
                  (JSONParse(files[p][k]).ok /\ ~Matches(files[p][k], req[p].filePath))
                  => files[p][k] \in Range(ledger)
            /\ res[p] = IF MatchIdx(files[p], req[p].filePath) = {}
                        THEN "404" ELSE "200")

\* An ingest of an uploaded file whose type, as passed to getDocumentLoader,
\* is none of the supported types.
UnsupportedUpload(r) ==
    r.op = "embed" /\ r.hasFile /\ r.type \notin SupportedTypes

\* C19: an ingest of an uploaded file of an unsupported type never gets
\* past the loader selection: it draws no run prefix, builds no chunk key
\* and issues no index command, none of its steps changes the ledger, the
\* vector records or the index, and it ends with 500.
C19_UnsupportedNoWrite ==
    /\ [](\A p \in Handlers :
            UnsupportedUpload(req[p])
            => (/\ pc[p] \in {"conn", "connecting", "e_proc", "done"}
                /\ chunkKeys[p] = <<>> /\ cmds[p] = {}
                /\ (pc[p] = "done" => res[p] = "500")))
    /\ [][\A p \in Handlers :
            (UnsupportedUpload(req'[p]) /\ pc'[p] # pc[p])
            => (/\ ledger' = ledger /\ vectors' = vectors
                /\ indexExists' = indexExists /\ nextPrefix' = nextPrefix)]_vars

\* With a record and its vector records in the store and the client
\* connected, an upload of an unsupported type was answered 500 by the
\* loader selection (no store command rejected).
C19_Witness ==
    \E p \in Handlers :
        /\ UnsupportedUpload(req[p])
        /\ pc[p] = "done" /\ res[p] = "500" /\ ~threw[p] /\ unlinked[p]
        /\ isOpen
        /\ Len(ledger) > 0 /\ vectors # {}

\* The value the splitter is to use for a supplied value v with default d:
\* v when it is a number, d when it is unset or no number.
Supplied(v, d) == IF v.kind = "number" THEN v ELSE JSNumber(d)

\* C20: the chunk handed to the splitter has the supplied chunkSize and
\* chunkOverlap where they are numbers (0 included) and 1000 and 200 where
\* they are unset or no numbers.
C20_ChunkFromCaller ==
    chunk # NoChunk =>
        /\ chunk.size = Supplied(reqBody.chunkSize, 1000)
        /\ chunk.overlap = Supplied(reqBody.chunkOverlap, 200)

\* C22: a serialized delete of a path whose only record is the head of the
\* list it read, appended by the latest ingest (the list is that ingest's
\* record followed by the ledger as it was before the ingest), answers 200
\* with found = true, leaves the ledger exactly as it was before the ingest
\* and none of the ingest's chunk keys in the vector store.
C22_IngestDeleteRoundTrip ==
    \A p \in Handlers :
        (/\ pc[p] = "done" /\ IsDelete(p)
         /\ MatchIdx(files[p], req[p].filePath) = {1}
         /\ JSONParse(files[p][1]).value.processedAt = now)
        => (/\ res[p] = "200" /\ found[p]
            /\ ledger = Tail(files[p])
            /\ KeysOf(files[p][1]) \cap vectors = {})

\* The path was ingested with two chunks on a ledger holding a record of
\* the other path, then deleted: the ledger is that one record again, with
\* its vector records in the store.
C22_Witness ==
    \E p \in Handlers :
        /\ pc[p] = "done" /\ IsDelete(p) /\ res[p] = "200"
        /\ Len(files[p]) = 2
        /\ MatchIdx(files[p], req[p].filePath) = {1}
        /\ JSONParse(files[p][1]).value.processedAt = now
        /\ Cardinality(KeysOf(files[p][1])) = 2
        /\ ledger = <<files[p][2]>>
        /\ KeysOf(files[p][2]) # {}
        /\ vectors = KeysOf(files[p][2])

\* The records of a list of get's result, each ingested later than every
\* record behind it (processedAt counts the appends).
MostRecentFirst(out) ==
    \A i \in 1..Len(out), j \in 1..Len(out) :
        (i < j /\ out[i].parsed /\ out[j].parsed)
        => out[i].value.processedAt > out[j].value.processedAt

\* C23: after any serialized sequence of successful ingests and deletes the
\* ledger, and the body of every get answered 200, lists the surviving
\* records latest ingest first.
C23_MostRecentFirst ==
    /\ MostRecentFirst(ProcessedFiles(ledger))
    /\ \A p \in Handlers :
          (pc[p] = "done" /\ req[p].op = "get" /\ res[p] = "200")
          => (/\ MostRecentFirst(ProcessedFiles(files[p]))
              /\ \A k \in 1..Len(files[p]) : ProcessedFiles(files[p])[k].parsed)

\* A get listed the first and the third ingest, both of one path (no
\* uniqueness check), after the second was deleted.
C23_Witness ==
    \E p \in Handlers :
        /\ pc[p] = "done" /\ req[p].op = "get" /\ res[p] = "200"
        /\ Len(files[p]) = 2
        /\ ProcessedFiles(files[p])[1].value.processedAt = 3
        /\ ProcessedFiles(files[p])[2].value.processedAt = 1
        /\ ProcessedFiles(files[p])[1].value.filePath
              = ProcessedFiles(files[p])[2].value.filePath

\* C24: when the lPush of an ingest rejects after its vector write went
\* through, the ingest answers 500 in that step, which changes neither the
\* ledger nor the vector store: every chunk key of the ingest names a
\* vector record and stands in no ledger record.  Nothing removes these
\* records afterwards while the answer is delivered.
C24_AppendFailureOrphans ==
    /\ [][\A p \in Handlers :
            (pc[p] = "e_push" /\ pc'[p] = "done" /\ threw'[p])
            => (/\ res'[p] = "500"
                /\ ledger' = ledger
                /\ vectors' = vectors
                /\ Range(chunkKeys[p]) \subseteq vectors'
                /\ \A k \in 1..Len(ledger') :
                      KeysOf(ledger'[k]) \cap Range(chunkKeys[p]) = {})]_vars
    /\ [][\A p \in Handlers :
            (pc[p] = "done" /\ IsEmbed(p) /\ res[p] = "500")
            => (Range(chunkKeys[p]) \cap vectors) \subseteq vectors']_vars

\* An ingest of two chunks was answered 500 with both vector records in the
\* store and its keys in none of the records of the ledger.
C24_Witness ==
    \E p \in Handlers :
        /\ pc[p] = "done" /\ IsEmbed(p) /\ res[p] = "500" /\ threw[p]
        /\ Len(chunkKeys[p]) = 2
        /\ Range(chunkKeys[p]) \subseteq vectors
        /\ Len(ledger) > 0
        /\ \A k \in 1..Len(ledger) : KeysOf(ledger[k]) \cap Range(chunkKeys[p]) = {}

\* C25: the chunk keys storeEmbeddings returns for n documents are, for one
\* run prefix P, the keys P+0, ..., P+(n-1) in document order, pairwise
\* distinct; the metadata id of the i-th document is the i-th key; and the
\* record a successful ingest has pushed carries exactly this sequence.
C25_ChunkKeySequence ==
    \A p \in Handlers :
        (IsEmbed(p) /\ (pc[p] = "e_push" \/ (pc[p] = "done" /\ res[p] = "200")))
        => (/\ Len(chunkKeys[p]) = docs[p]
            /\ \E P \in 0..(nextPrefix - 1) :
                  \A k \in 1..docs[p] : chunkKeys[p][k] = <<P, k - 1>>
            /\ \A i \in 1..docs[p], j \in 1..docs[p] :
                  i # j => chunkKeys[p][i] # chunkKeys[p][j]
            /\ Len(metadataIds[p]) = docs[p]
            /\ \A k \in 1..docs[p] : metadataIds[p][k] = chunkKeys[p][k]
            /\ (pc[p] = "done"
                  => (/\ Len(ledger) > 0
                      /\ JSONParse(ledger[1]).ok
                      /\ JSONParse(ledger[1]).value.chunkKeys = chunkKeys[p])))

\* The third ingest, of two chunks, was answered 200: its record holds the
\* keys 2+0 and 2+1 in this order.
C25_Witness ==
    \E p \in Handlers :
        /\ pc[p] = "done" /\ IsEmbed(p) /\ res[p] = "200"
        /\ docs[p] = 2
        /\ chunkKeys[p] = <<(<<2, 0>>), (<<2, 1>>)>>
        /\ JSONParse(ledger[1]).value.chunkKeys = chunkKeys[p]

\* A ledger entry of the list references the vector key v.
Referenced(list, v) ==
    \E k \in 1..Len(list) : JSONParse(list[k]).ok /\ v \in KeysOf(list[k])

\* C26: for each matched record delete removes the record's vector keys
\* before it removes the record's ledger entry, and no step of a serialized
\* delete, whether its store commands succeed or reject, leaves a vector
\* record that a ledger entry referenced before the step and none references
\* after it.
C26_DeleteNoOrphans ==
    [][\A p \in Handlers :
          (IsDelete(p) /\ pc[p] \in {"d_exec", "d_lset", "d_lrem"})
          => (/\ (pc[p] = "d_lset" /\ ledger' # ledger)
                    => KeysOf(files[p][idx[p]]) \cap vectors = {}
              /\ \A v \in vectors' :
                    Referenced(ledger, v) => Referenced(ledger', v))]_vars

\* C27: a step of a serialized delete(p) deletes only vector keys listed in
\* the chunkKeys of a ledger record whose path is p; the vector records of
\* records of other paths and the vector records no record references are
\* left as they were.
C27_DeleteOnlyOwnKeys ==
    [][\A p \in Handlers :
          (IsDelete(p) /\ pc[p] # "idle")
          => (/\ (vectors \ vectors') \subseteq
                    UNION {KeysOf(files[p][k]) :
                              k \in MatchIdx(files[p], req[p].filePath)}
              /\ vectors' \subseteq vectors)]_vars

\* A delete was answered 200 and the keys of a record of its path are gone,
\* while the keys of a record of another path and a vector no record
\* references are still there.
C27_Witness ==
    \E p \in Handlers :
        /\ pc[p] = "done" /\ IsDelete(p) /\ res[p] = "200" /\ ~threw[p]
        /\ \E k \in MatchIdx(files[p], req[p].filePath) :
              KeysOf(files[p][k]) # {} /\ KeysOf(files[p][k]) \cap vectors = {}
        /\ \E k \in 1..Len(files[p]) :
              /\ JSONParse(files[p][k]).ok
              /\ JSONParse(files[p][k]).value.filePath # req[p].filePath
              /\ KeysOf(files[p][k]) # {}
              /\ KeysOf(files[p][k]) \subseteq vectors
        /\ \E v \in vectors : ~Referenced(files[p], v)

\* C28: in the isConnecting revision a caller that finds a connection
\* attempt in flight waits until that attempt has finished and calls
\* connect() at no time while another connect() is in flight, whether or
\* not the client emits an error event during the attempt; after waiting it
\* calls connect() only when the client is still not open.
C28_FlagWaitsForAttempt ==
    /\ [](Cardinality(InFlight) <= 1)
    /\ [][\A p \in Handlers :
            (pc[p] = "f_wait" /\ pc'[p] # "f_wait")
            => (/\ InFlight = {}
                /\ pc'[p] = "f_connect" => ~isOpen)]_vars

\* A delete is between its lRange and its answer.
DeleteInProgress == \E p \in Handlers : IsDelete(p) /\ pc[p] \notin {"idle", "conn", "connecting", "done"}

\* C29: whenever no delete is in progress the ledger holds no '__DELETED__'
\* entry, also after a delete in which a store command rejected; and the
\* lRem of a delete removes the entry at the index where this delete has
\* just written the placeholder.
C29_PlaceholderTransient ==
    /\ [](~DeleteInProgress => DELETED \notin Range(ledger))
    /\ [][\A p \in Handlers :
            (pc[p] = "d_lrem" /\ ledger' # ledger)
            => (/\ ledger[idx[p]] = DELETED
                /\ ledger' = RemoveAt(ledger, idx[p]))]_vars

\* C30: with ingests interleaved in any way and no delete, the ledger holds
\* exactly one record per ingest that succeeded (now counts them), each a
\* record of its own push; an ingest that has answered 200 finds its record,
\* with its path and its chunk keys, in the ledger, and the chunk keys of
\* two records are disjoint.
C30_NoLostRecords ==
    /\ Len(ledger) = now
    /\ \A k \in 1..Len(ledger) :
          JSONParse(ledger[k]).ok /\ JSONParse(ledger[k]).value.processedAt = now - k + 1
    /\ \A i \in 1..Len(ledger), j \in 1..Len(ledger) :
          i # j => KeysOf(ledger[i]) \cap KeysOf(ledger[j]) = {}
    /\ \A p \in Handlers :
          (IsEmbed(p) /\ pc[p] = "done" /\ res[p] = "200")
          => \E k \in 1..Len(ledger) :
                /\ JSONParse(ledger[k]).value.filePath = req[p].filePath
                /\ JSONParse(ledger[k]).value.chunkKeys = chunkKeys[p]
    /\ \A p \in Handlers, q \in Handlers :
          (/\ p # q
           /\ IsEmbed(p) /\ pc[p] = "done" /\ res[p] = "200"
           /\ IsEmbed(q) /\ pc[q] = "done" /\ res[q] = "200")
          => \E i \in 1..Len(ledger), j \in 1..Len(ledger) :
                /\ i # j
                /\ JSONParse(ledger[i]).value.chunkKeys = chunkKeys[p]
                /\ JSONParse(ledger[j]).value.chunkKeys = chunkKeys[q]

\* Two ingests of two chunks each were in flight together and both were
\* answered 200 after an earlier ingest: the ledger holds three records.
C30_Witness ==
    /\ \A p \in Handlers :
          IsEmbed(p) /\ pc[p] = "done" /\ res[p] = "200" /\ docs[p] = 2
    /\ Len(ledger) = 3
    /\ JSONParse(ledger[1]).value.chunkKeys = chunkKeys[1]
    /\ JSONParse(ledger[2]).value.chunkKeys = chunkKeys[2]
    /\ chunkKeys[1][1][1] < chunkKeys[2][1][1]

\* C31: an embed request that carries an uploaded file has issued the
\* removal of the upload when its handler has ended, whatever the answer
\* (200, a processing error, a rejected store command); the removal is issued
\* for no request that carries only a URL, and for no other request.
C31_UnlinkOnEveryExit ==
    \A p \in Handlers :
        /\ (pc[p] = "done" /\ IsEmbed(p)) => (unlinked[p] = req[p].hasFile)
        /\ unlinked[p] => (IsEmbed(p) /\ req[p].hasFile /\ pc[p] = "done")

\* An upload whose store command rejected was answered 500 with the removal
\* issued, next to a URL ingest answered 200 without one.
C31_Witness ==
    \E p \in Handlers, q \in Handlers :
        /\ pc[p] = "done" /\ IsEmbed(p) /\ req[p].hasFile
        /\ res[p] = "500" /\ threw[p] /\ unlinked[p]
        /\ pc[q] = "done" /\ IsEmbed(q) /\ ~req[q].hasFile
        /\ res[q] = "200" /\ ~unlinked[q]

\* C32: an embed request with neither an uploaded file nor a filePath is
\* answered 400 by the step that receives it, with the vector records, the
\* index and the ledger left as they were; a delete request without a
\* filePath is answered 400 by the step that receives it, before any store
\* access.
C32_MissingInputRejected ==
    [][\A p \in Handlers :
          (/\ pc[p] = "idle"
           /\ req'[p].op \in {"embed", "delete"}
           /\ ~req'[p].hasFile
           /\ req'[p].filePath = "")
          => (/\ pc'[p] = "done"
              /\ res'[p] = "400"
              /\ ledger' = ledger
              /\ vectors' = vectors
              /\ indexExists' = indexExists)]_vars

====
